---- MODULE Spec2Model ----
(***************************************************************************)
(* VerifyFlow web client (src/web/script.js; src/unnamed/part_000 is the   *)
(* reduced variant of the same page script).                               *)
(*                                                                         *)
(* JavaScript strings are modelled as sequences of characters, one         *)
(* one-character string per element.  The module text is ASCII, so every   *)
(* Cyrillic letter of the source is written as its Latin transliteration   *)
(* ("zh", "ch", "sh", "sch", "yu", "ya" and "q" for the soft sign are one  *)
(* character each); an upper-case letter is the capitalised token.         *)
(* Fixed output texts (labels, hint sentences) and free texts the program   *)
(* only copies are one token each.                                         *)
(***************************************************************************)
EXTENDS Integers, Sequences, FiniteSets, Bags, TLC

(***************************************************************************)
(* Bounds of the model.                                                    *)
(***************************************************************************)
\* audit requests that may be in flight at the same time
MaxPending == 2
\* annotations that may be added before a reset
MaxComments == 2
\* length of the order numbers the validator is called with
MaxOrderNumberLen == 4

(***************************************************************************)
(* JavaScript values and string primitives.                                *)
(***************************************************************************)
\* JavaScript null / undefined
Null == [type |-> "null"]

\* an optional property: the empty set when absent, a singleton when present
Absent == {}
Present(v) == {v}
ValueOf(o) == CHOOSE v \in o : TRUE

\* a property value that is not a string (a number in the JSON document)
NotAString == <<"#number">>

UpperChars ==
  <<"A","B","C","D","E","F","G","H","I","J","K","L","M","N","O","P","Q","R",
    "S","T","U","V","W","X","Y","Z","Zh","Ch","Sh","Sch","Yu","Ya","Eh">>
LowerChars ==
  <<"a","b","c","d","e","f","g","h","i","j","k","l","m","n","o","p","q","r",
    "s","t","u","v","w","x","y","z","zh","ch","sh","sch","yu","ya","eh">>

\* the lower-case letter of every upper-case letter
LowerOf ==
  [u \in {UpperChars[i] : i \in 1..Len(UpperChars)} |->
     LowerChars[CHOOSE i \in 1..Len(UpperChars) : UpperChars[i] = u]]

\* String.prototype.toLowerCase, one character
LowerChar(c) == IF c \in DOMAIN LowerOf THEN LowerOf[c] ELSE c

\* String.prototype.toLowerCase
toLowerCase(s) == [i \in 1..Len(s) |-> LowerChar(s[i])]

\* String.prototype.toUpperCase on a fixed label (one token)
toUpperCase(label) ==
  CASE label = "Kritichno" -> "KRITICHNO"
    [] label = "Preduprezhdenie" -> "PREDUPREZHDENIE"
    [] label = "Informaciya" -> "INFORMACIYA"
    [] OTHER -> "OK"

\* String.prototype.includes
includes(s, sub) ==
  \E i \in 1..(Len(s) - Len(sub) + 1) :
    \A j \in 1..Len(sub) : s[i + j - 1] = sub[j]

\* String.prototype.endsWith
endsWith(s, suffix) ==
  /\ Len(s) >= Len(suffix)
  /\ SubSeq(s, Len(s) - Len(suffix) + 1, Len(s)) = suffix

IsSpace(c) == c = " "

\* String.prototype.trim
trim(s) ==
  IF \A i \in 1..Len(s) : IsSpace(s[i]) THEN <<>>
  ELSE LET first == CHOOSE i \in 1..Len(s) :
                      /\ ~IsSpace(s[i])
                      /\ \A j \in 1..(i - 1) : IsSpace(s[j])
           last == CHOOSE i \in 1..Len(s) :
                      /\ ~IsSpace(s[i])
                      /\ \A j \in (i + 1)..Len(s) : IsSpace(s[j])
       IN SubSeq(s, first, last)

\* s.split(":")[1]: the text between the first and the second colon
\* (undefined, here the empty string, when s holds no colon)
splitColon1(s) ==
  IF \A i \in 1..Len(s) : s[i] # ":" THEN <<>>
  ELSE LET c1 == CHOOSE i \in 1..Len(s) :
                   s[i] = ":" /\ \A j \in 1..(i - 1) : s[j] # ":"
           rest == SubSeq(s, c1 + 1, Len(s))
       IN IF \A i \in 1..Len(rest) : rest[i] # ":" THEN rest
          ELSE SubSeq(rest, 1,
                 (CHOOSE i \in 1..Len(rest) :
                    rest[i] = ":" /\ \A j \in 1..(i - 1) : rest[j] # ":") - 1)

\* a JavaScript value used as a condition: "" and undefined are falsy
Truthy(s) == s # <<>>

EscChar(c) ==
  CASE c = "&" -> "&amp;"
    [] c = "<" -> "&lt;"
    [] c = ">" -> "&gt;"
    [] c = "\"" -> "&quot;"
    [] c = "'" -> "&#39;"
    [] OTHER -> c

esc(s) == [i \in 1..Len(s) |-> EscChar(s[i])]

(***************************************************************************)
(* Keywords of the source, transliterated.                                 *)
(***************************************************************************)
kwFIO == <<"F","I","O">>
kwfio == <<"f","i","o">>
kwFamiliya == <<"F","a","m","i","l","i","ya">>
kwfamiliya == <<"f","a","m","i","l","i","ya">>
kwstudent == <<"s","t","u","d","e","n","t">>
kwrukovoditel == <<"r","u","k","o","v","o","d","i","t","e","l","q">>
kwrukovoditelya == <<"r","u","k","o","v","o","d","i","t","e","l","ya">>
kwpadezh == <<"p","a","d","e","zh">>
kwpadezhe == <<"p","a","d","e","zh","e">>
kwsokrascheni == <<"s","o","k","r","a","sch","e","n","i">>
kwsokrascheniya == <<"s","o","k","r","a","sch","e","n","i","ya">>
kwio == <<"i",".","o",".">>
kwiSpaceo == <<"i","."," ","o",".">>
kwneNajdeno == <<"n","e"," ","n","a","j","d","e","n","o">>
kwobuchayuschegosya == <<"o","b","u","ch","a","yu","sch","e","g","o","s","ya">>
kwnomerPrikaza == <<"n","o","m","e","r"," ","p","r","i","k","a","z","a">>
kwprikaz == <<"p","r","i","k","a","z">>
kwrasporyazhenie == <<"r","a","s","p","o","r","ya","zh","e","n","i","e">>
kwOrderNumber == <<"O","r","d","e","r","N","u","m","b","e","r">>
kwneNajdenNomer == <<"n","e"," ","n","a","j","d","e","n"," ","n","o","m","e","r">>
kwnestandartnyjFormat ==
  <<"n","e","s","t","a","n","d","a","r","t","n","y","j"," ","f","o","r","m","a","t">>
kwnedopustimyeSimvoly ==
  <<"n","e","d","o","p","u","s","t","i","m","y","e"," ","s","i","m","v","o","l","y">>
kwslishkomKorotkij ==
  <<"s","l","i","sh","k","o","m"," ","k","o","r","o","t","k","i","j">>
kwpage == <<"p","a","g","e",":">>
kwEllipsis == <<".",".",".">>
extDocx == <<".","d","o","c","x">>
extPdf == <<".","p","d","f">>
locTitle == <<"t","i","t","l","e","_","p","a","g","e">>
locCalendar ==
  <<"c","a","l","e","n","d","a","r","_","p","l","a","n","_","t","a","b","l","e">>
locDocument == <<"d","o","c","u","m","e","n","t">>
dash == <<"-">>
emDash == <<"--">>
sevCritical == <<"c","r","i","t","i","c","a","l">>
sevWarning == <<"w","a","r","n","i","n","g">>
sevInfo == <<"i","n","f","o">>
filterAll == <<"a","l","l">>

(***************************************************************************)
(* Presentation helpers.                                                   *)
(***************************************************************************)
sevLabel(sev) ==
  IF sev = sevCritical THEN "Kritichno"
  ELSE IF sev = sevWarning THEN "Preduprezhdenie"
  ELSE IF sev = sevInfo THEN "Informaciya"
  ELSE "OK"

dotClass(sev) ==
  IF sev = sevCritical \/ sev = sevWarning \/ sev = sevInfo THEN sev
  ELSE <<"o","k">>

\* text || fallback
OrElse(s, fallback) == IF Truthy(s) THEN s ELSE fallback

\* evidence that is present and is not a placeholder
HasEvidence(evidence) ==
  Truthy(evidence) /\ evidence # emDash /\ evidence # dash

(***************************************************************************)
(* Location classifier: the bucket label of one issue, on screen           *)
(* (getLocationSummary) and in the export (downloadReportWithComments).    *)
(***************************************************************************)
ScreenMentionsFIO(message) ==
  Truthy(message) /\ (includes(message, kwFIO) \/ includes(message, kwfio))

screenLocationName(issue) ==
  IF ScreenMentionsFIO(issue.message) THEN <<"Oshibki FIO">>
  ELSE IF issue.location = locTitle THEN <<"Titulnaya stranica">>
  ELSE IF includes(issue.location, kwpage)
       THEN <<"Stranica ">> \o splitColon1(issue.location)
  ELSE IF issue.location = locCalendar THEN <<"Tablica kalendarnogo plana">>
  ELSE IF issue.location = locDocument THEN <<"Osnovnoj tekst">>
  ELSE issue.location

ExportMentionsFIO(message) ==
  Truthy(message) /\ (includes(message, kwFIO) \/ includes(message, kwfio))

exportLocationName(issue) ==
  IF ExportMentionsFIO(issue.message) THEN <<"Oshibki FIO">>
  ELSE IF issue.location = locTitle THEN <<"Titulnaya stranica">>
  ELSE IF includes(issue.location, kwpage)
       THEN <<"Stranica ">> \o splitColon1(issue.location)
  ELSE IF issue.location = locCalendar THEN <<"Tablica kalendarnogo plana">>
  ELSE IF issue.location = locDocument THEN <<"Osnovnoj tekst">>
  ELSE issue.location

locationCounts(issues) ==
  LET located == {i \in 1..Len(issues) : Truthy(issues[i].location)}
      labels == {exportLocationName(issues[i]) : i \in located}
  IN [l \in labels |->
        Cardinality({i \in located : exportLocationName(issues[i]) = l})]

(***************************************************************************)
(* Hint generators of the screen.                                          *)
(***************************************************************************)
\* evidence.substring(0, 60)
HintEvidenceLen == 60

substring0(s, n) == SubSeq(s, 1, IF Len(s) < n THEN Len(s) ELSE n)

getFIOHint(errorMessage, evidence) ==
  LET message == toLowerCase(errorMessage)
  IN IF /\ includes(message, kwneNajdeno)
        /\ (includes(message, kwobuchayuschegosya) \/ includes(message, kwstudent))
     THEN <<"Ischite FIO studenta posle slov 'obuchayuschegosya', 'dopustit', 'studenta' na titulnoj stranice">>
     ELSE IF /\ includes(message, kwneNajdeno)
             /\ (includes(message, kwrukovoditelya) \/ includes(message, kwrukovoditel))
     THEN <<"Ischite FIO rukovoditelya posle slov 'rukovoditel', 'nauchnyj rukovoditel' na titulnoj stranice">>
     ELSE IF \/ includes(message, kwsokrascheniya)
             \/ includes(message, kwio)
             \/ includes(message, kwiSpaceo)
     THEN <<"Najdite vse sokrascheniya vida 'I.I. Ivanov' i zamenite na polnoe imya 'Ivan Ivanovich Ivanov'">>
     ELSE IF includes(message, kwpadezh) \/ includes(message, kwpadezhe)
     THEN <<"Proverte padezh FIO posle predlogov: 'ot studenta' -> roditelnyj padezh">>
     ELSE IF includes(message, kwfio) \/ includes(message, kwfamiliya)
     THEN IF HasEvidence(evidence) /\ includes(evidence, kwEllipsis)
          THEN <<"Ischite v tekste: \"">>
                 \o substring0(evidence, HintEvidenceLen) \o <<"...\"">>
          ELSE <<"Proverte vse upominaniya FIO na titulnoj stranice i v dokumentah">>
     ELSE <<"Proverte pravilnost napisaniya FIO v dokumente">>

getOrderNumberHint(errorMessage, evidence) ==
  LET message == toLowerCase(errorMessage)
  IN IF includes(message, kwneNajdenNomer)
     THEN <<"Ischite nomer prikaza/rasporyazheniya v shapke dokumenta, obychno v formate: 'No 33.02-05/334' ili 'Prikaz No123/2024'">>
     ELSE IF includes(message, kwnestandartnyjFormat)
     THEN <<"Proverte format nomera. Primery pravilnyh formatov: 33.02-05/334, 123/2024, 456-r">>
     ELSE IF includes(message, kwnedopustimyeSimvoly)
     THEN <<"V nomere prikaza razresheny tolko: cifry 0-9, tochka ., tire -, slesh /. Udalite drugie simvoly.">>
     ELSE IF includes(message, kwslishkomKorotkij)
     THEN <<"Nomer prikaza dolzhen soderzhat minimum 3 simvola (naprimer, '1/24' - nepravilno, '123/2024' - pravilno)">>
     ELSE <<"Proverte nomer prikaza/rasporyazheniya v dokumente">>

\* the keyword test that selects the name-format family (case-sensitive)
IsFIOMessage(message) ==
  /\ Truthy(message)
  /\ \/ includes(message, kwFIO)
     \/ includes(message, kwfio)
     \/ includes(message, kwFamiliya)
     \/ includes(message, kwstudent)
     \/ includes(message, kwrukovoditel)
     \/ includes(message, kwpadezh)
     \/ includes(message, kwsokrascheni)

\* the test that selects the order-number family on screen
IsOrderNumberMessage(message, rule) ==
  /\ Truthy(message)
  /\ \/ includes(message, kwnomerPrikaza)
     \/ includes(message, kwprikaz)
     \/ includes(message, kwrasporyazhenie)
     \/ (Truthy(rule) /\ includes(rule, kwOrderNumber))

locationText(location) ==
  IF location = locTitle
  THEN <<"Titulnaya stranica (pervaya stranica dokumenta)">>
  ELSE IF location = locDocument THEN <<"Osnovnoj tekst dokumenta">>
  ELSE IF location = locCalendar THEN <<"Tablica kalendarnogo plana">>
  ELSE IF includes(location, kwpage)
  THEN <<"Stranica ">> \o splitColon1(location)
         \o <<" (perejdite na etu stranicu v dokumente)">>
  ELSE location

\* the branch of the badge code taken for one issue: the name badge, the
\* order-number badge, the location badge, or no badge
screenFamily(it) ==
  IF IsFIOMessage(it.message) THEN "name"
  ELSE IF IsOrderNumberMessage(it.message, it.rule) THEN "order"
  ELSE IF Truthy(it.location) THEN "location"
  ELSE "none"

\* the hint badge rendered under one issue; the empty string when no family applies
locationBadge(it) ==
  IF IsFIOMessage(it.message)
  THEN <<"Gde iskat etu oshibku: ">> \o getFIOHint(it.message, it.evidence)
  ELSE IF IsOrderNumberMessage(it.message, it.rule)
  THEN <<"Gde iskat nomer prikaza: ">> \o getOrderNumberHint(it.message, it.evidence)
  ELSE IF Truthy(it.location) THEN locationText(it.location)
  ELSE <<>>

evidenceHint(it) ==
  IF HasEvidence(it.evidence) THEN <<"Kontekst oshibki: ">> \o esc(it.evidence)
  ELSE <<>>

(***************************************************************************)
(* Hint block of the exported document (downloadReportWithComments).       *)
(* Each sub-rule assigns detailedHint, so a later sub-rule that fires      *)
(* replaces what an earlier one wrote.                                     *)
(***************************************************************************)
exportFIOHint(issueMessage) ==
  LET message == toLowerCase(issueMessage)
      notFound == includes(message, kwneNajdeno)
      h1 == IF /\ notFound
               /\ (includes(message, kwobuchayuschegosya) \/ includes(message, kwstudent))
            THEN <<"GDE ISKAT: Ischite FIO studenta posle slov 'obuchayuschegosya', 'dopustit', 'studenta' na titulnoj stranice">>
            ELSE <<>>
      h2 == IF /\ notFound
               /\ (includes(message, kwrukovoditelya) \/ includes(message, kwrukovoditel))
            THEN <<"GDE ISKAT: Ischite FIO rukovoditelya posle slov 'rukovoditel', 'nauchnyj rukovoditel' na titulnoj stranice">>
            ELSE h1
      h3 == IF \/ includes(message, kwsokrascheniya)
               \/ includes(message, kwio)
               \/ includes(message, kwiSpaceo)
            THEN <<"GDE ISKAT: Najdite vse sokrascheniya vida 'I.I. Ivanov' v dokumente",
                   "PRAVILNYJ FORMAT: 'Ivan Ivanovich Ivanov' (polnoe imya bez tochek)",
                   "PRIMER: I.I. Ivanov -> Ivan Ivanovich Ivanov">>
            ELSE h2
      h4 == IF includes(message, kwpadezh) \/ includes(message, kwpadezhe)
            THEN <<"GDE ISKAT: Proverte padezh FIO posle predlogov v dokumente",
                   "PRAVILO: 'ot studenta' trebuet roditelnyj padezh",
                   "PRIMER: ot student Ivanov Ivan -> ot studenta Ivanova Ivana">>
            ELSE h3
  IN IF ~Truthy(h4) /\ (includes(message, kwfio) \/ includes(message, kwfamiliya))
     THEN <<"GDE ISKAT: Proverte vse upominaniya FIO na titulnoj stranice">>
     ELSE h4

exportLocationHint(location) ==
  IF location = locTitle
  THEN <<"MESTOPOLOZHENIE: Titulnaya stranica (pervaya stranica dokumenta)">>
  ELSE IF location = locCalendar
  THEN <<"MESTOPOLOZHENIE: Tablica kalendarnogo plana">>
  ELSE IF includes(location, kwpage)
  THEN <<"MESTOPOLOZHENIE: Stranica ">> \o splitColon1(location)
  ELSE IF location = locDocument
  THEN <<"MESTOPOLOZHENIE: Osnovnoj tekst dokumenta">>
  ELSE <<>>

\* the branch of the hint code of the export taken for one issue
exportFamily(issue) ==
  IF IsFIOMessage(issue.message) THEN "name"
  ELSE IF Truthy(issue.location) THEN "location"
  ELSE "none"

\* the hint block of one issue of the export, before evidence, fix and rule
exportFamilyHint(issue) ==
  IF IsFIOMessage(issue.message) THEN exportFIOHint(issue.message)
  ELSE IF Truthy(issue.location) THEN exportLocationHint(issue.location)
  ELSE <<>>

detailedHint(issue) ==
  exportFamilyHint(issue)
    \o (IF HasEvidence(issue.evidence)
        THEN <<"KONTEKST: ">> \o issue.evidence ELSE <<>>)
    \o (IF Truthy(issue.how_to_fix)
        THEN <<"KAK ISPRAVIT: ">> \o issue.how_to_fix ELSE <<>>)
    \o (IF Truthy(issue.rule) THEN <<"PRAVILO: ">> \o issue.rule ELSE <<>>)

(***************************************************************************)
(* The environment: files the user may pick, texts the user may type, and  *)
(* what the audit service may answer.                                      *)
(***************************************************************************)
\* a File of the file input (its size, shown in the status line only, is left out)
File(name) == [type |-> "file", name |-> name]

FileInputs ==
  {File(<<"a",".","d","o","c","x">>),
   File(<<"B",".","P","D","F">>),
   File(<<"c",".","t","x","t">>)}

\* values of the order-number field
OrderNumberInputs == {<<>>, <<"a","b"," ">>}

\* values of the comment textarea
CommentInputs == {<<" ">>, <<" ","o","k"," ">>}

\* localized times the clock may show, in the order it shows them
TimeLine == <<"01.01.2026, 10:00", "01.01.2026, 10:01">>
Timestamps == {TimeLine[i] : i \in 1..Len(TimeLine)}
TimeIndex(t) == CHOOSE i \in 1..Len(TimeLine) : TimeLine[i] = t

\* the clock does not run backwards: now is no earlier than the last annotation
ClockAllows(now, cs) ==
  IF cs = <<>> THEN TRUE
  ELSE TimeIndex(now) >= TimeIndex(cs[Len(cs)].timestamp)

Issue(message, severity, location, rule, evidence, how) ==
  [message |-> message, severity |-> severity, location |-> location,
   rule |-> rule, evidence |-> evidence, how_to_fix |-> how]

\* "FIO studenta ne najdeno", on the title page
issueFioStudenta ==
  Issue(<<"F","I","O"," ","s","t","u","d","e","n","t","a"," ",
          "n","e"," ","n","a","j","d","e","n","o">>,
        sevCritical, locTitle, <<>>, <<>>, <<>>)

\* "Familiya ne najdena", on page 3
issueFamiliya ==
  Issue(<<"F","a","m","i","l","i","ya"," ","n","e"," ","n","a","j","d","e","n","a">>,
        sevCritical, <<"p","a","g","e",":","3">>, <<>>, <<>>, <<>>)

\* "Nevernyj shrift", in the main body, with evidence, fix and rule
issueShrift ==
  Issue(<<"N","e","v","e","r","n","y","j"," ","sh","r","i","f","t">>,
        sevWarning, locDocument, <<"F","O","N","T">>,
        <<"A","r","i","a","l">>, <<"Ustanovite Times New Roman">>)

\* "Polya stranicy": a message only
issuePolya ==
  Issue(<<"P","o","l","ya"," ","s","t","r","a","n","i","c","y">>,
        sevInfo, <<>>, <<>>, <<>>, <<>>)

\* an issue whose severity is a number
issueBadSeverity ==
  Issue(<<"P","o","l","ya">>, NotAString, <<>>, <<>>, <<>>, <<>>)

Summary(total) ==
  [total |-> total, critical |-> Absent, warning |-> Absent, info |-> Absent]

Report(profile, summary, issues) ==
  [type |-> "object", profile |-> profile, summary |-> summary,
   issues |-> issues]

profileGost == <<"g","o","s","t">>

reportClean == Report(profileGost, Present(Summary(Present(0))), Present(<<>>))
reportNames ==
  Report(profileGost, Absent, Present(<<issueFioStudenta, issueFamiliya>>))
reportMixed ==
  Report(profileGost, Present(Summary(Absent)), Present(<<issueShrift, issuePolya>>))
reportBroken == Report(<<>>, Absent, Present(<<issueBadSeverity>>))

\* what JSON.parse may return for a body the service sends with a success status
ParsedBodies == {reportClean, reportNames, reportMixed, reportBroken, Null}

\* issues that exercise the hint code: messages of every family, in either
\* letter case, with one or two sub-rules, crossed with locations and rules
HintMessages ==
  {issueFioStudenta.message,
   <<"S","t","u","d","e","n","t"," ","n","e"," ","n","a","j","d","e","n">>,
   kwFIO \o <<":"," ">> \o kwsokrascheniya \o <<" ","i"," ">> \o kwpadezh,
   kwFIO \o <<" ">> \o kwstudent \o <<"a"," ","i"," ">> \o kwrukovoditelya
     \o <<" ">> \o kwneNajdeno,
   <<"N","e"," ","n","a","j","d","e","n"," ">> \o kwnomerPrikaza,
   kwFIO \o <<" ","v"," ">> \o kwprikaz \o <<"e">>,
   issueShrift.message}

HintLocations == {<<>>, locTitle, <<"p","a","g","e",":","3">>,
                  <<"a","p","p","e","n","d","i","x">>}

HintRules == {<<>>, kwOrderNumber \o <<"C","h","e","c","k">>}

HintIssues ==
  {Issue(m, sevWarning, l, r, <<>>, <<>>) :
     m \in HintMessages, l \in HintLocations, r \in HintRules}

\* a report of one such issue
HintReports == {Report(profileGost, Absent, Present(<<it>>)) : it \in HintIssues}

\* how one network exchange may end: fetch rejects; the status is not a
\* success; reading the body rejects; the body is no JSON; the body parses
Outcomes == {"fetchRejects", "notOk", "textRejects", "unparseable", "parsed"}

(***************************************************************************)
(* Filter state and the rendering of a report (renderReport).              *)
(***************************************************************************)
Filters == {filterAll, sevCritical, sevWarning, sevInfo}

\* report.issues when it is an array, else the empty array
IssuesOf(report) ==
  IF report.issues = Absent THEN <<>> ELSE ValueOf(report.issues)

\* the predicate of issues.filter(...)
PassesFilter(it, filter) ==
  \/ filter = filterAll
  \/ toLowerCase(OrElse(it.severity, <<>>)) = filter

\* slip: the filter compares the severity with the state also under `all`
filteredWithoutAll(issues, filter) ==
  SelectSeq(issues, LAMBDA it : toLowerCase(OrElse(it.severity, <<>>)) = filter)

filtered(issues, filter) ==
  SelectSeq(issues, LAMBDA it : PassesFilter(it, filter))

\* s.total ?? issues.length, where s is report.summary or, when the report
\* has no summary, the default object whose total is 0
kpiTotal(report) ==
  IF report.summary = Absent THEN 0
  ELSE IF ValueOf(report.summary).total # Absent
  THEN ValueOf(ValueOf(report.summary).total)
  ELSE Len(IssuesOf(report))

\* one issue of the list as rendered
renderIssue(it) ==
  LET sev == toLowerCase(OrElse(it.severity, sevInfo))
  IN [sev |-> sevLabel(sev),
      dot |-> dotClass(sev),
      rule |-> esc(it.rule),
      message |-> esc(OrElse(it.message, <<"Narushenie">>)),
      evidenceHint |-> evidenceHint(it),
      badge |-> screenFamily(it),
      locationBadge |-> locationBadge(it),
      how |-> esc(it.how_to_fix)]

renderCommentItem(comment) ==
  [timestamp |-> comment.timestamp, text |-> esc(comment.text)]

\* the comment list as rendered by renderComments and by renderReport
renderComments(cs) == [i \in 1..Len(cs) |-> renderCommentItem(cs[i])]

\* renderReport throws a TypeError before it writes the report area: on a
\* null report (report.summary) and on a severity that is no string
\* (severity.toLowerCase is not a function)
renderThrows(report) ==
  \/ report = Null
  \/ \E i \in 1..Len(IssuesOf(report)) : IssuesOf(report)[i].severity = NotAString

\* renderIssue and the bucket label, evaluated once for every issue the
\* service can send
IssueUniverse ==
  UNION {{IssuesOf(b)[i] : i \in 1..Len(IssuesOf(b))} :
           b \in {b \in ParsedBodies \cup HintReports : ~renderThrows(b)}}
renderedIssue == [it \in IssueUniverse |-> renderIssue(it)]
bucketOf == [it \in IssueUniverse |-> screenLocationName(it)]

\* bucket label -> number of issues, over the issues that carry a location
getLocationSummary(issues) ==
  LET located == {i \in 1..Len(issues) : Truthy(issues[i].location)}
      labels == {bucketOf[issues[i]] : i \in located}
  IN [l \in labels |->
        Cardinality({i \in located : bucketOf[issues[i]] = l})]

\* the content renderReport writes into the report area
reportHtml(report, filter, cs) ==
  LET issues == IssuesOf(report)
      shown == filtered(issues, filter)
  IN [kind |-> "report",
      profile |-> esc(OrElse(report.profile, <<"net">>)),
      total |-> kpiTotal(report),
      activeChip |-> filter,
      locationSummary |-> getLocationSummary(issues),
      issues |-> [i \in 1..Len(shown) |-> renderedIssue[shown[i]]],
      shownCount |-> Len(shown),
      ofCount |-> Len(issues),
      commentsList |-> renderComments(cs)]

\* renderEmpty(text)
renderEmpty(text) == [kind |-> "empty", text |-> text]

\* renderLoading()
renderLoading == [kind |-> "loading"]

(***************************************************************************)
(* Order number validator (validateOrderNumber).                           *)
(***************************************************************************)
\* trimmed.length < 3
MinOrderNumberLength == 3
\* \d{2,4}
MinYearDigits == 2
MaxYearDigits == 4

Digits == {"0","1","2","3","4","5","6","7","8","9"}
IsDigit(c) == c \in Digits
IsLetter(c) == c \in DOMAIN LowerOf \/ c \in {LowerOf[u] : u \in DOMAIN LowerOf}

\* [a-ya A-Ya a-z A-Z 0-9 \- \/ \. \s]
IsFormatChar(c) ==
  IsLetter(c) \/ IsDigit(c) \/ c \in {"-", "/", "."} \/ IsSpace(c)

\* \d{2,4} over s[from..to]
IsYearGroup(s, from, to) ==
  /\ to - from + 1 >= MinYearDigits
  /\ to - from + 1 <= MaxYearDigits
  /\ \A i \in from..to : IsDigit(s[i])

\* /^[...]+\/\d{2,4}([-\/]\d{2,4})?$/.test(s): k is the place of the slash
\* that ends the leading run, m the place of the optional second separator
formatRegexTest(s) ==
  \E k \in 2..Len(s) :
    /\ s[k] = "/"
    /\ \A i \in 1..(k - 1) : IsFormatChar(s[i])
    /\ \/ IsYearGroup(s, k + 1, Len(s))
       \/ \E m \in (k + 1)..Len(s) :
            /\ s[m] \in {"-", "/"}
            /\ IsYearGroup(s, k + 1, m - 1)
            /\ IsYearGroup(s, m + 1, Len(s))

InvalidChars ==
  {"<", ">", "#", "@", "$", "%", "^", "&", "*", "(", ")", "+", "=", "|",
   "{", "}", "[", "]", ":", ";", "\"", "'", "grave", "~"}

\* the character class of invalidCharRegex ("grave" is the backtick)
invalidCharRegexTest(s) == \E i \in 1..Len(s) : s[i] \in InvalidChars

\* an issue as the validator builds it (no location, no evidence)
ValidatorIssue(severity, message, how, rule) ==
  [message |-> message, severity |-> severity, location |-> <<>>,
   rule |-> rule, evidence |-> <<>>, how_to_fix |-> how]

issueMissing ==
  ValidatorIssue(sevWarning,
    <<"N","e"," ","u","k","a","z","a","n"," ","n","o","m","e","r"," ",
      "p","r","i","k","a","z","a","/","r","a","s","p","o","r","ya","zh","e","n","i","ya">>,
    <<"Rekomenduetsya ukazat nomer oficialnogo dokumenta dlya otchyotnosti">>,
    <<"ORDER_NUMBER_MISSING">>)

issueTooShort ==
  ValidatorIssue(sevCritical,
    <<"N","o","m","e","r"," ","p","r","i","k","a","z","a"," ">> \o kwslishkomKorotkij,
    <<"Nomer dolzhen soderzhat ne menee 3 simvolov">>,
    <<"ORDER_NUMBER_TOO_SHORT">>)

issueFormat ==
  ValidatorIssue(sevWarning,
    <<"N","o","m","e","r"," ","p","r","i","k","a","z","a"," ","i","m","e","e","t"," ">>
      \o kwnestandartnyjFormat,
    <<"Rekomenduemyj format: 'XXX/GGGG' ili 'XXX/GGGG-GGGG' (naprimer, '123/2024')">>,
    <<"ORDER_NUMBER_FORMAT_WARNING">>)

issueInvalidChars ==
  ValidatorIssue(sevCritical,
    <<"N","o","m","e","r"," ","p","r","i","k","a","z","a"," ",
      "s","o","d","e","r","zh","i","t"," ">> \o kwnedopustimyeSimvoly,
    <<"Udalite specialnye simvoly">>,
    <<"ORDER_NUMBER_INVALID_CHARS">>)

\* slip: the validator returns at its first finding
validateFirstFinding(orderNumberText) ==
  IF ~Truthy(orderNumberText) \/ trim(orderNumberText) = <<>>
  THEN [isValid |-> TRUE, errors |-> <<>>, warnings |-> <<issueMissing>>]
  ELSE LET trimmed == trim(orderNumberText)
       IN IF Len(trimmed) < MinOrderNumberLength
          THEN [isValid |-> FALSE, errors |-> <<issueTooShort>>, warnings |-> <<>>]
          ELSE IF ~formatRegexTest(trimmed)
          THEN [isValid |-> TRUE, errors |-> <<>>, warnings |-> <<issueFormat>>]
          ELSE IF invalidCharRegexTest(trimmed)
          THEN [isValid |-> FALSE, errors |-> <<issueInvalidChars>>, warnings |-> <<>>]
          ELSE [isValid |-> TRUE, errors |-> <<>>, warnings |-> <<>>]

validateOrderNumber(orderNumberText) ==
  IF ~Truthy(orderNumberText) \/ trim(orderNumberText) = <<>>
  THEN [isValid |-> TRUE, errors |-> <<>>, warnings |-> <<issueMissing>>]
  ELSE LET trimmed == trim(orderNumberText)
           errors ==
             (IF Len(trimmed) < MinOrderNumberLength THEN <<issueTooShort>> ELSE <<>>)
               \o (IF invalidCharRegexTest(trimmed) THEN <<issueInvalidChars>> ELSE <<>>)
           warnings ==
             IF ~formatRegexTest(trimmed) THEN <<issueFormat>> ELSE <<>>
       IN [isValid |-> Len(errors) = 0, errors |-> errors, warnings |-> warnings]

(***************************************************************************)
(* State of the page.                                                      *)
(***************************************************************************)
VARIABLES
  chosen,         \* the file to audit, or null
  lastReport,     \* the report held by the session, or null
  comments,       \* the annotations
  currentFilter,  \* the severity filter
  runDisabled,    \* runEl.disabled
  clearDisabled,  \* clearEl.disabled
  metaEl,         \* metaEl.textContent
  fileEl,         \* the file held by the file input, or null
  reportArea,     \* what reportArea.innerHTML shows
  orderNumber,    \* value of the order-number field
  pending,        \* the bag of audit requests awaiting their response
  download,       \* the file the step just taken offered for download, or null
  validation      \* what the last call of validateOrderNumber returned, or null

vars == <<chosen, lastReport, comments, currentFilter, runDisabled,
          clearDisabled, metaEl, fileEl, reportArea, orderNumber, pending,
          download, validation>>

\* what resetUI leaves
Init ==
  /\ chosen = Null
  /\ lastReport = Null
  /\ comments = <<>>
  /\ currentFilter = filterAll
  /\ runDisabled = TRUE
  /\ clearDisabled = TRUE
  /\ metaEl = <<"Fajl ne vybran.">>
  /\ fileEl = Null
  /\ reportArea = renderEmpty(<<"Zagruzite dokument i nazhmite \"Proverit\".">>)
  /\ orderNumber = <<>>
  /\ pending = EmptyBag
  /\ download = Null
  /\ validation = Null

\* resetUI(), called by the click on the clear control
resetUI ==
  /\ ~clearDisabled
  /\ UNCHANGED validation
  /\ chosen' = Null
  /\ lastReport' = Null
  /\ comments' = <<>>
  /\ currentFilter' = filterAll
  /\ runDisabled' = TRUE
  /\ clearDisabled' = TRUE
  /\ metaEl' = <<"Fajl ne vybran.">>
  /\ fileEl' = Null
  /\ reportArea' = renderEmpty(<<"Zagruzite dokument i nazhmite \"Proverit\".">>)
  /\ download' = Null
  /\ UNCHANGED <<orderNumber, pending>>

\* the extension gate of the change handler
isAllowedName(name) ==
  LET ext == toLowerCase(name)
  IN endsWith(ext, extDocx) \/ endsWith(ext, extPdf)

\* slip: the handler leaves chosen as it was when it rejects a file
chosenKeptOnRejected(previous) == previous

\* chosen after a file with a disallowed extension was picked
chosenAfterRejected(previous) == Null

\* the change handler of the file input, which runs when the input's file
\* changes; f is fileEl.files[0], null when the dialog left the input empty
fileElChange(f) ==
  /\ f # fileEl
  /\ UNCHANGED validation
  /\ fileEl' = f
  /\ IF f = Null
     THEN UNCHANGED <<chosen, runDisabled, clearDisabled, metaEl, reportArea>>
     ELSE IF ~isAllowedName(f.name)
     THEN /\ metaEl' = <<"Vyberite fajl .docx ili .pdf.">>
          /\ reportArea' =
               renderEmpty(<<"Nevernyj format. Podderzhivayutsya .docx i .pdf.">>)
          /\ runDisabled' = TRUE
          /\ clearDisabled' = FALSE
          /\ chosen' = chosenAfterRejected(chosen)
     ELSE /\ chosen' = f
          /\ runDisabled' = FALSE
          /\ clearDisabled' = FALSE
          /\ metaEl' = <<"Vybran fajl: ">> \o f.name
          /\ reportArea' =
               renderEmpty(<<"Fajl gotov k proverke. Nazhmite \"Proverit\".">>)
  /\ download' = Null
  /\ UNCHANGED <<lastReport, comments, currentFilter, orderNumber, pending>>

\* the user edits the order-number field
orderNumberInput(text) ==
  /\ orderNumber' = text
  /\ UNCHANGED validation
  /\ orderNumber' # orderNumber
  /\ download' = Null
  /\ UNCHANGED <<chosen, lastReport, comments, currentFilter, runDisabled,
                 clearDisabled, metaEl, fileEl, reportArea, pending>>

\* the audit request the click handler sends: the chosen file
Request(file) == [file |-> file]

\* the click handler of the submit control up to its await.  A disabled
\* button receives no click; with no chosen file the handler returns at once.
runElClick ==
  /\ ~runDisabled
  /\ UNCHANGED validation
  /\ download' = Null
  /\ IF chosen = Null
     THEN UNCHANGED <<chosen, lastReport, comments, currentFilter, runDisabled,
                      clearDisabled, metaEl, fileEl, reportArea, orderNumber,
                      pending>>
     ELSE /\ BagCardinality(pending) < MaxPending
          /\ runDisabled' = TRUE
          /\ clearDisabled' = TRUE
          /\ reportArea' = renderLoading
          /\ pending' = pending (+) SetToBag({Request(chosen)})
          /\ UNCHANGED <<chosen, lastReport, comments, currentFilter, metaEl,
                         fileEl, orderNumber>>

\* slip: the controls are re-enabled at the end of the handler instead of in
\* a finally block, so the early return on a non-success status skips it
disabledUnlessReturned(outcome) == outcome = "notOk"

\* runEl.disabled and clearEl.disabled as the finally block leaves them
finallyDisabled(outcome) == FALSE

\* lastReport once the exchange has ended: renderReport assigns it first,
\* also when it throws afterwards
lastReportAfter(outcome, body, held) ==
  IF outcome = "parsed" THEN body ELSE held

\* the report area once the exchange has ended
reportAreaAfter(outcome, body, filter, cs) ==
  IF outcome = "notOk"
  THEN renderEmpty(<<"Oshibka ", "500", ": ", "Internal Server Error">>)
  ELSE IF outcome = "parsed" /\ ~renderThrows(body)
  THEN reportHtml(body, filter, cs)
  ELSE renderEmpty(<<"Oshibka soedineniya: ", "Error">>)

\* the click handler of the submit control from its await on: the exchange
\* of request req ends with outcome (and, parsed, with body)
runElSettle(req, outcome, body) ==
  /\ BagIn(req, pending)
  /\ UNCHANGED validation
  /\ pending' = pending (-) SetToBag({req})
  /\ lastReport' = lastReportAfter(outcome, body, lastReport)
  /\ reportArea' = reportAreaAfter(outcome, body, currentFilter, comments)
  /\ runDisabled' = finallyDisabled(outcome)
  /\ clearDisabled' = finallyDisabled(outcome)
  /\ download' = Null
  /\ UNCHANGED <<chosen, comments, currentFilter, metaEl, fileEl, orderNumber>>

\* the click handler of a filter chip of the rendered report
filterChipClick(filter) ==
  /\ reportArea.kind = "report"
  /\ UNCHANGED validation
  /\ currentFilter' = filter
  /\ reportArea' = IF renderThrows(lastReport) THEN reportArea
                   ELSE reportHtml(lastReport, filter, comments)
  /\ download' = Null
  /\ UNCHANGED <<chosen, lastReport, comments, runDisabled, clearDisabled,
                 metaEl, fileEl, orderNumber, pending>>

\* slip: the new annotation is put in front of the list
unshiftComment(cs, newComment) == <<newComment>> \o cs

\* comments.push(newComment)
pushComment(cs, newComment) == Append(cs, newComment)

\* addComment(), called by the add button of the rendered report; typed is
\* the textarea's value and now the localized time
addComment(typed, now) ==
  /\ reportArea.kind = "report"
  /\ UNCHANGED validation
  /\ LET text == trim(typed)
     IN IF ~Truthy(text)
        THEN UNCHANGED <<comments, reportArea>>
        ELSE /\ Len(comments) < MaxComments
             /\ ClockAllows(now, comments)
             /\ comments' = pushComment(comments, [text |-> text, timestamp |-> now])
             /\ reportArea' =
                  [reportArea EXCEPT !.commentsList = renderComments(comments')]
  /\ download' = Null
  /\ UNCHANGED <<chosen, lastReport, currentFilter, runDisabled, clearDisabled,
                 metaEl, fileEl, orderNumber, pending>>

\* chosen.name.replace(/\.[^/.]+$/, ""): the name without its last extension
stripExtension(name) ==
  IF \E k \in 1..(Len(name) - 1) :
       /\ name[k] = "."
       /\ \A j \in (k + 1)..Len(name) : name[j] \notin {"/", "."}
  THEN SubSeq(name, 1,
         (CHOOSE k \in 1..(Len(name) - 1) :
            /\ name[k] = "."
            /\ \A j \in (k + 1)..Len(name) : name[j] \notin {"/", "."}) - 1)
  ELSE name

\* count || 0 of the summary of the export
exportCount(report, field) ==
  IF report.summary = Absent \/ ValueOf(report.summary)[field] = Absent THEN 0
  ELSE ValueOf(ValueOf(report.summary)[field])

\* one entry of the detailed issue list of the export
exportEntry(issue, i) ==
  [number |-> i,
   label |-> toUpperCase(sevLabel(OrElse(issue.severity, sevInfo))),
   message |-> OrElse(issue.message, <<"Narushenie">>),
   familyHint |-> exportFamilyHint(issue),
   hint |-> detailedHint(issue)]

\* slip: the export walks the issues the screen shows under the filter
exportVisibleIssues(report) == filtered(IssuesOf(report), currentFilter)

\* the issues the export walks: lastReport.issues, or [] when it is no array
exportIssues(report) == IssuesOf(report)

\* the text document downloadReportWithComments builds, section by section
reportContent(report, file, order, cs, now) ==
  LET issues == exportIssues(report)
  IN [header |-> [title |-> "OTCHYOT PROVERKI DOKUMENTA",
                  date |-> now,
                  profile |-> OrElse(report.profile, <<"ne ukazan">>),
                  file |-> IF file # Null THEN file.name ELSE <<"ne ukazan">>,
                  orderNumber |-> trim(order)],
      summary |-> [total |-> exportCount(report, "total"),
                   critical |-> exportCount(report, "critical"),
                   warning |-> exportCount(report, "warning"),
                   info |-> exportCount(report, "info")],
      distribution |-> locationCounts(issues),
      spreadLine |-> DOMAIN locationCounts(issues) = {},
      issueSection |-> Len(issues) > 0,
      entries |-> [i \in 1..Len(issues) |-> exportEntry(issues[i], i)],
      commentSection |-> Len(cs) > 0,
      comments |-> [i \in 1..Len(cs) |->
                      [number |-> i, timestamp |-> cs[i].timestamp,
                       text |-> cs[i].text]],
      checklist |-> [i \in 1..Len(issues) |->
                       [number |-> i, message |-> issues[i].message]],
      footer |-> "INSTRUKCIYA",
      fileName |-> <<"verifyflow_otchet_">>
                     \o (IF file # Null THEN stripExtension(file.name)
                         ELSE <<"dokument">>)
                     \o <<"_", now, ".txt">>]

\* downloadReportWithComments(), called by the download button of the
\* rendered report; now is the localized time
downloadReportWithComments(now) ==
  /\ reportArea.kind = "report"
  /\ UNCHANGED validation
  /\ ClockAllows(now, comments)
  /\ download' = IF lastReport = Null THEN Null
                 ELSE reportContent(lastReport, chosen, orderNumber, comments, now)
  /\ UNCHANGED <<chosen, lastReport, comments, currentFilter, runDisabled,
                 clearDisabled, metaEl, fileEl, reportArea, orderNumber, pending>>

Next ==
  \/ resetUI
  \/ \E f \in FileInputs \cup {Null} : fileElChange(f)
  \/ \E text \in OrderNumberInputs : orderNumberInput(text)
  \/ runElClick
  \/ \E req \in BagToSet(pending), outcome \in Outcomes :
       \E body \in IF outcome = "parsed" THEN ParsedBodies ELSE {Null} :
         runElSettle(req, outcome, body)
  \/ \E filter \in Filters : filterChipClick(filter)
  \/ \E typed \in CommentInputs, now \in Timestamps : addComment(typed, now)
  \/ \E now \in Timestamps : downloadReportWithComments(now)

Spec == Init /\ [][Next]_vars

(***************************************************************************)
(* Steps and views the properties speak about.                             *)
(***************************************************************************)
\* the step issues an audit request
IsSubmit == BagCardinality(pending') > BagCardinality(pending)

\* the step is the end of a network exchange
IsSettle == BagCardinality(pending') < BagCardinality(pending)

\* the step renders the report of a successful response
IsFreshReport == IsSettle /\ reportArea'.kind = "report"

\* the report area as the change handler leaves it for an allowed file
ReadyView == renderEmpty(<<"Fajl gotov k proverke. Nazhmite \"Proverit\".">>)

\* the report area shows a failure of the exchange
ShowsFailure ==
  /\ reportArea.kind = "empty"
  /\ reportArea.text[1] \in {"Oshibka ", "Oshibka soedineniya: "}

(***************************************************************************)
(* C1: at most one audit request is in flight at any time.                 *)
(***************************************************************************)
C1_AtMostOneInFlight == BagCardinality(pending) <= 1

(***************************************************************************)
(* C2: the annotation list is empty after a file was chosen and after the  *)
(* report of a successful response was rendered.                           *)
(***************************************************************************)
C2_AnnotationsResetOnNewAudit ==
  [][(reportArea' = ReadyView \/ IsFreshReport) => comments' = <<>>]_vars

(***************************************************************************)
(* C3: the first rendering of the report of a new response uses the filter *)
(* `all` and shows every issue.                                            *)
(***************************************************************************)
C3_FreshReportUnfiltered ==
  [][IsFreshReport =>
       /\ currentFilter' = filterAll
       /\ reportArea'.activeChip = filterAll
       /\ reportArea'.shownCount = reportArea'.ofCount]_vars

(***************************************************************************)
(* C4: when a network exchange ends, on whichever path, the submit and     *)
(* clear controls are enabled, so a chosen file can be submitted again.    *)
(***************************************************************************)
C4_ControlsReenabled ==
  [][IsSettle => (~runDisabled' /\ ~clearDisabled' /\ chosen' = chosen)]_vars

\* a failed exchange has ended and the chosen file can be submitted again
C4_Witness ==
  /\ ShowsFailure
  /\ pending = EmptyBag
  /\ chosen # Null
  /\ ~runDisabled
  /\ ~clearDisabled

(***************************************************************************)
(* C5: an exchange that does not end in a rendered report leaves the held  *)
(* report unchanged.                                                       *)
(***************************************************************************)
C5_FailureKeepsReport ==
  [][(IsSettle /\ reportArea'.kind # "report") => lastReport' = lastReport]_vars

(***************************************************************************)
(* C6: the visible subset is exactly the issues whose severity equals the  *)
(* filter state, or all issues under `all`, in original order; the counter *)
(* reports the number of all issues; a step that only re-renders leaves    *)
(* the held report as it is, and selecting the selected filter again       *)
(* leaves the visible subset as it is.                                     *)
(***************************************************************************)
ExpectedVisible(issues, filter) ==
  SelectSeq(issues, LAMBDA it : filter = filterAll \/ it.severity = filter)

C6_FilterIsPure ==
  [][reportArea'.kind = "report" =>
       LET issues == IssuesOf(lastReport')
           visible == ExpectedVisible(issues, currentFilter')
       IN /\ reportArea'.issues = [i \in 1..Len(visible) |-> renderedIssue[visible[i]]]
          /\ reportArea'.shownCount = Len(visible)
          /\ reportArea'.ofCount = Len(issues)
          /\ (reportArea.kind = "report" /\ ~IsSettle) =>
               /\ lastReport' = lastReport
               /\ currentFilter' = currentFilter =>
                    reportArea'.issues = reportArea.issues]_vars

\* a report of a warning and an info issue under the filter `critical`:
\* nothing is visible, and the counter still reports two issues
C6_Witness ==
  /\ reportArea.kind = "report"
  /\ currentFilter = sevCritical
  /\ reportArea.shownCount = 0
  /\ reportArea.ofCount = 2
  /\ lastReport = reportMixed

(***************************************************************************)
(* C7: every audit request issued carries the chosen file, whose name      *)
(* ends in .docx or .pdf (in either letter case), and is issued while the  *)
(* status line names that file: once a disallowed file was picked, no      *)
(* request is issued until an allowed file is picked.                      *)
(***************************************************************************)
NameEndsIn(name, ext) ==
  /\ Len(name) >= Len(ext)
  /\ \A j \in 1..Len(ext) : LowerChar(name[Len(name) - Len(ext) + j]) = ext[j]

C7_NoRequestForDisallowedFile ==
  [][IsSubmit =>
       /\ chosen # Null
       /\ NameEndsIn(chosen.name, extDocx) \/ NameEndsIn(chosen.name, extPdf)
       /\ metaEl = <<"Vybran fajl: ">> \o chosen.name
       /\ pending' = pending (+) SetToBag({Request(chosen)})]_vars

\* a disallowed file was picked while a request was pending, and the
\* request has ended: the submit control is enabled with no file chosen
C7_Witness ==
  /\ fileEl # Null
  /\ ~isAllowedName(fileEl.name)
  /\ metaEl = <<"Vyberite fajl .docx ili .pdf.">>
  /\ chosen = Null
  /\ ~runDisabled
  /\ pending = EmptyBag

(***************************************************************************)
(* C8: when a report is rendered while the order-number field holds a      *)
(* value the validator rejects, the held and displayed report contains     *)
(* the validator's issues besides the service's.                           *)
(***************************************************************************)
ValidatorFindings(text) ==
  LET v == validateOrderNumber(text)
  IN {v.errors[i] : i \in 1..Len(v.errors)}
       \cup {v.warnings[i] : i \in 1..Len(v.warnings)}

C8_ValidatorFindingsMerged ==
  [][(IsFreshReport /\ ~validateOrderNumber(orderNumber).isValid) =>
       \A finding \in ValidatorFindings(orderNumber) :
         \E i \in 1..Len(IssuesOf(lastReport')) :
           IssuesOf(lastReport')[i] = finding]_vars

(***************************************************************************)
(* C9: every located issue whose message carries a name keyword is         *)
(* counted in the bucket "Oshibki FIO" (name errors), on screen and in the *)
(* location distribution of the export.                                    *)
(***************************************************************************)
NameIssues(report) ==
  {i \in 1..Len(IssuesOf(report)) :
     /\ Truthy(IssuesOf(report)[i].location)
     /\ IsFIOMessage(IssuesOf(report)[i].message)}

CountsAsNameErrors(distribution, report) ==
  NameIssues(report) # {} =>
    /\ <<"Oshibki FIO">> \in DOMAIN distribution
    /\ distribution[<<"Oshibki FIO">>] = Cardinality(NameIssues(report))

C9_NameIssuesInNameBucket ==
  /\ reportArea.kind = "report" =>
       CountsAsNameErrors(reportArea.locationSummary, lastReport)
  /\ download # Null => CountsAsNameErrors(download.distribution, lastReport)

(***************************************************************************)
(* C10: every issue shown or exported has a non-empty hint block.          *)
(***************************************************************************)
C10_HintIsTotal ==
  /\ reportArea.kind = "report" =>
       \A i \in 1..Len(reportArea.issues) :
         \/ Truthy(reportArea.issues[i].locationBadge)
         \/ Truthy(reportArea.issues[i].evidenceHint)
         \/ Truthy(reportArea.issues[i].how)
         \/ Truthy(reportArea.issues[i].rule)
  /\ download # Null =>
       \A i \in 1..Len(download.entries) : Truthy(download.entries[i].hint)

(***************************************************************************)
(* The validator called on its own.  No handler of the page calls          *)
(* validateOrderNumber (its calls are commented out), so it is exercised   *)
(* here as a function of the text of the order-number field.               *)
(***************************************************************************)
\* characters of the order numbers tried: a digit, a letter, the slash, a
\* space, a character of the validator's class and one outside every class
OrderNumberChars == {"1", "a", "/", " ", "#", "_"}

ValidatorInputs ==
  UNION {[1..n -> OrderNumberChars] : n \in 0..MaxOrderNumberLen}

\* the page as loaded, the order-number field holding a typed text
ValidatorInit ==
  /\ chosen = Null
  /\ lastReport = Null
  /\ comments = <<>>
  /\ currentFilter = filterAll
  /\ runDisabled = TRUE
  /\ clearDisabled = TRUE
  /\ metaEl = <<"Fajl ne vybran.">>
  /\ fileEl = Null
  /\ reportArea = renderEmpty(<<"Zagruzite dokument i nazhmite \"Proverit\".">>)
  /\ orderNumber \in ValidatorInputs
  /\ pending = EmptyBag
  /\ download = Null
  /\ validation = Null

\* validateOrderNumber(orderNumberInput.value)
validateCall ==
  /\ validation' = validateOrderNumber(orderNumber)
  /\ UNCHANGED <<chosen, lastReport, comments, currentFilter, runDisabled,
                 clearDisabled, metaEl, fileEl, reportArea, orderNumber,
                 pending, download>>

ValidatorNext == validateCall

ValidatorSpec == ValidatorInit /\ [][ValidatorNext]_vars

\* x is an element of the sequence s
InSeq(x, s) == \E i \in 1..Len(s) : s[i] = x

\* a character of the allowed set: a letter, a digit, the space, '.', '-', '/'
AllowedOrderNumberChar(c) ==
  IsLetter(c) \/ IsDigit(c) \/ c \in {" ", ".", "-", "/"}

(***************************************************************************)
(* C11: for a non-blank input the validator reports the critical error     *)
(* "invalid characters" exactly when the input holds a character outside   *)
(* the allowed set (letters, digits, space, '.', '-', '/').                *)
(***************************************************************************)
C11_InvalidCharsReported ==
  (validation # Null /\ trim(orderNumber) # <<>>) =>
    (InSeq(issueInvalidChars, validation.errors)
       <=> \E i \in 1..Len(orderNumber) : ~AllowedOrderNumberChar(orderNumber[i]))

(***************************************************************************)
(* C12: the result has isValid exactly when it has no errors, whatever its *)
(* warnings; a blank input gives one warning, no error and isValid; for a  *)
(* non-blank input each of the length, format and character checks is      *)
(* reported whenever it applies, whatever the other checks found.          *)
(***************************************************************************)
C12_ValidityAndIndependence ==
  validation # Null =>
    LET trimmed == trim(orderNumber)
    IN /\ validation.isValid = (validation.errors = <<>>)
       /\ trimmed = <<>> =>
            /\ validation.warnings = <<issueMissing>>
            /\ validation.errors = <<>>
            /\ validation.isValid
       /\ trimmed # <<>> =>
            /\ InSeq(issueTooShort, validation.errors)
                 <=> Len(trimmed) < MinOrderNumberLength
            /\ InSeq(issueFormat, validation.warnings)
                 <=> ~formatRegexTest(trimmed)
            /\ InSeq(issueInvalidChars, validation.errors)
                 <=> invalidCharRegexTest(trimmed)
            /\ ~InSeq(issueMissing, validation.warnings)

\* an input that is too short, of no standard format and holds a character
\* of the validator's class: two errors and one warning are reported
C12_Witness ==
  /\ validation # Null
  /\ Len(validation.errors) = 2
  /\ Len(validation.warnings) = 1
  /\ ~validation.isValid

(***************************************************************************)
(* C13: the export of a report with no issue, made with no annotation,     *)
(* holds the header, the summary, the location distribution with the line  *)
(* "spread across the document", the heading of the detailed issue list    *)
(* with no entry, the checklist with no line, and the footer.              *)
(***************************************************************************)
C13_EmptyReportExport ==
  (download # Null /\ IssuesOf(lastReport) = <<>> /\ comments = <<>>) =>
    /\ download.header.title = "OTCHYOT PROVERKI DOKUMENTA"
    /\ download.summary.total = 0
    /\ download.spreadLine
    /\ download.issueSection
    /\ download.entries = <<>>
    /\ ~download.commentSection
    /\ download.checklist = <<>>
    /\ download.footer = "INSTRUKCIYA"

(***************************************************************************)
(* C14: a displayed report whose summary has no total, or that has no      *)
(* summary at all, shows the number of its issues as the total.            *)
(***************************************************************************)
C14_TotalFallsBackToIssueCount ==
  (/\ reportArea.kind = "report"
   /\ \/ lastReport.summary = Absent
      \/ ValueOf(lastReport.summary).total = Absent) =>
    reportArea.total = Len(IssuesOf(lastReport))

(***************************************************************************)
(* C15: a step leaves the annotations as they are, or appends one entry    *)
(* (the trimmed text typed, non-empty) after the existing ones, or is a    *)
(* reset that empties the list; the export numbers the annotations by      *)
(* their place in the list and copies their timestamp and text.            *)
(***************************************************************************)
\* the step is a reset of the page
IsReset == chosen' = Null /\ lastReport' = Null /\ fileEl' = Null /\ runDisabled'

C15_AnnotationsAppendOnly ==
  [][/\ \/ comments' = comments
        \/ /\ Len(comments') = Len(comments) + 1
           /\ SubSeq(comments', 1, Len(comments)) = comments
           /\ Truthy(comments'[Len(comments')].text)
           /\ trim(comments'[Len(comments')].text) = comments'[Len(comments')].text
        \/ comments' = <<>> /\ IsReset
     /\ download' # Null =>
          download'.comments =
            [i \in 1..Len(comments') |->
               [number |-> i, timestamp |-> comments'[i].timestamp,
                text |-> comments'[i].text]]]_vars

\* two annotations made at different times were exported
C15_Witness ==
  /\ download # Null
  /\ download.commentSection
  /\ Len(comments) = 2
  /\ comments[1].timestamp # comments[2].timestamp
  /\ download.comments[2].number = 2
  /\ download.comments[2].timestamp = comments[2].timestamp

(***************************************************************************)
(* C19: whenever the submit control is enabled a file is chosen, and its   *)
(* name has an allowed extension.                                          *)
(***************************************************************************)
C19_RunEnabledMeansChosen ==
  ~runDisabled => (chosen # Null /\ isAllowedName(chosen.name))

(***************************************************************************)
(* C20: a response that is rendered and becomes the held report answers a  *)
(* request issued for the file chosen at that moment, and an export names  *)
(* the chosen file.                                                        *)
(***************************************************************************)
\* the request whose exchange ends in this step
SettledRequests ==
  {req \in BagToSet(pending) : CopiesIn(req, pending') < CopiesIn(req, pending)}

C20_ReportIsForChosenFile ==
  [][/\ IsFreshReport => \A req \in SettledRequests : req.file = chosen'
     /\ (download' # Null /\ chosen' # Null) =>
          download'.header.file = chosen'.name]_vars

(***************************************************************************)
(* The hint code on its own: the service answers the audit of a.docx with  *)
(* the report of one issue, and the user filters and exports it.           *)
(***************************************************************************)
\* the page after a.docx was chosen and submitted, the response pending
HintInit ==
  /\ chosen = File(<<"a",".","d","o","c","x">>)
  /\ fileEl = chosen
  /\ lastReport = Null
  /\ comments = <<>>
  /\ currentFilter = filterAll
  /\ runDisabled = TRUE
  /\ clearDisabled = TRUE
  /\ metaEl = <<"Vybran fajl: ">> \o chosen.name
  /\ reportArea = renderLoading
  /\ orderNumber = <<>>
  /\ pending = SetToBag({Request(chosen)})
  /\ download = Null
  /\ validation = Null

HintNext ==
  \/ \E req \in BagToSet(pending), body \in HintReports :
       runElSettle(req, "parsed", body)
  \/ \E filter \in Filters : filterChipClick(filter)
  \/ \E now \in Timestamps : downloadReportWithComments(now)

HintSpec == HintInit /\ [][HintNext]_vars

\* the issues of the held report and, under the filter `all`, their rows
HeldIssues == IssuesOf(lastReport)
ShowsAllRows == reportArea.kind = "report" /\ currentFilter = filterAll

(***************************************************************************)
(* C16: the hint of every issue is of the family its message selects by    *)
(* keywords in any letter case (and its rule, for the order-number         *)
(* family), in the priority name, order number, location; on screen and    *)
(* in the export.                                                          *)
(***************************************************************************)
MentionsName(message) ==
  LET lower == toLowerCase(message)
  IN \/ includes(lower, kwfio)
     \/ includes(lower, kwfamiliya)
     \/ includes(lower, kwstudent)
     \/ includes(lower, kwrukovoditel)
     \/ includes(lower, kwpadezh)
     \/ includes(lower, kwsokrascheni)

MentionsOrderNumber(message, rule) ==
  LET lower == toLowerCase(message)
  IN \/ includes(lower, kwnomerPrikaza)
     \/ includes(lower, kwprikaz)
     \/ includes(lower, kwrasporyazhenie)
     \/ includes(rule, kwOrderNumber)

ExpectedFamily(issue) ==
  IF MentionsName(issue.message) THEN "name"
  ELSE IF MentionsOrderNumber(issue.message, issue.rule) THEN "order"
  ELSE IF Truthy(issue.location) THEN "location"
  ELSE "none"

C16_FamilyByPriority ==
  /\ ShowsAllRows =>
       \A i \in 1..Len(HeldIssues) :
         reportArea.issues[i].badge = ExpectedFamily(HeldIssues[i])
  /\ download # Null =>
       \A i \in 1..Len(HeldIssues) :
         exportFamily(HeldIssues[i]) = ExpectedFamily(HeldIssues[i])

(***************************************************************************)
(* C17: the hint of a name-family issue holds the guidance of every        *)
(* sub-rule its message triggers, on screen and in the export.             *)
(***************************************************************************)
SubRules == {"student", "supervisor", "abbreviation", "case"}

Triggers(message, sub) ==
  LET lower == toLowerCase(message)
  IN CASE sub = "student" ->
            /\ includes(lower, kwneNajdeno)
            /\ (includes(lower, kwobuchayuschegosya) \/ includes(lower, kwstudent))
       [] sub = "supervisor" ->
            /\ includes(lower, kwneNajdeno)
            /\ (includes(lower, kwrukovoditelya) \/ includes(lower, kwrukovoditel))
       [] sub = "abbreviation" ->
            \/ includes(lower, kwsokrascheniya)
            \/ includes(lower, kwio)
            \/ includes(lower, kwiSpaceo)
       [] sub = "case" -> includes(lower, kwpadezh)

\* the sentence each sub-rule contributes on screen and in the export
ScreenGuidance(sub) ==
  CASE sub = "student" ->
         "Ischite FIO studenta posle slov 'obuchayuschegosya', 'dopustit', 'studenta' na titulnoj stranice"
    [] sub = "supervisor" ->
         "Ischite FIO rukovoditelya posle slov 'rukovoditel', 'nauchnyj rukovoditel' na titulnoj stranice"
    [] sub = "abbreviation" ->
         "Najdite vse sokrascheniya vida 'I.I. Ivanov' i zamenite na polnoe imya 'Ivan Ivanovich Ivanov'"
    [] sub = "case" ->
         "Proverte padezh FIO posle predlogov: 'ot studenta' -> roditelnyj padezh"

ExportGuidance(sub) ==
  CASE sub = "student" ->
         "GDE ISKAT: Ischite FIO studenta posle slov 'obuchayuschegosya', 'dopustit', 'studenta' na titulnoj stranice"
    [] sub = "supervisor" ->
         "GDE ISKAT: Ischite FIO rukovoditelya posle slov 'rukovoditel', 'nauchnyj rukovoditel' na titulnoj stranice"
    [] sub = "abbreviation" ->
         "GDE ISKAT: Najdite vse sokrascheniya vida 'I.I. Ivanov' v dokumente"
    [] sub = "case" ->
         "GDE ISKAT: Proverte padezh FIO posle predlogov v dokumente"

C17_SubHintsConcatenated ==
  /\ ShowsAllRows =>
       \A i \in 1..Len(HeldIssues) :
         reportArea.issues[i].badge = "name" =>
           \A sub \in SubRules :
             Triggers(HeldIssues[i].message, sub) =>
               InSeq(ScreenGuidance(sub), reportArea.issues[i].locationBadge)
  /\ download # Null =>
       \A i \in 1..Len(HeldIssues) :
         exportFamily(HeldIssues[i]) = "name" =>
           \A sub \in SubRules :
             Triggers(HeldIssues[i].message, sub) =>
               InSeq(ExportGuidance(sub), download.entries[i].familyHint)

(***************************************************************************)
(* C18: for every issue the export takes the hint family the screen takes, *)
(* and writes family guidance exactly when the screen shows some.          *)
(***************************************************************************)
C18_ExportHintIsScreenHint ==
  (download # Null /\ ShowsAllRows) =>
    \A i \in 1..Len(HeldIssues) :
      /\ exportFamily(HeldIssues[i]) = reportArea.issues[i].badge
      /\ Truthy(download.entries[i].familyHint)
           <=> Truthy(reportArea.issues[i].locationBadge)

(***************************************************************************)
(* C21: whichever filter is selected, the location distribution, the       *)
(* detailed issue list and the checklist of an export cover every issue of *)
(* the held report, in the report's order, so they are the same under      *)
(* every filter.                                                           *)
(***************************************************************************)
\* the located issues of the held report, by place
LocatedHeld == {i \in 1..Len(HeldIssues) : Truthy(HeldIssues[i].location)}

C21_ExportIgnoresFilter ==
  download # Null =>
    /\ Len(download.entries) = Len(HeldIssues)
    /\ \A i \in 1..Len(HeldIssues) :
         /\ download.entries[i].number = i
         /\ download.entries[i].message =
              OrElse(HeldIssues[i].message, <<"Narushenie">>)
         /\ download.entries[i].hint = detailedHint(HeldIssues[i])
    /\ download.checklist =
         [i \in 1..Len(HeldIssues) |->
            [number |-> i, message |-> HeldIssues[i].message]]
    /\ DOMAIN download.distribution =
         {exportLocationName(HeldIssues[i]) : i \in LocatedHeld}
    /\ \A label \in DOMAIN download.distribution :
         download.distribution[label] =
           Cardinality({i \in LocatedHeld :
                          exportLocationName(HeldIssues[i]) = label})
    /\ download.spreadLine = (LocatedHeld = {})
    /\ download.issueSection = (HeldIssues # <<>>)

\* the screen shows none of the two issues under the filter `critical`, and
\* the export made in that view lists both
C21_Witness ==
  /\ download # Null
  /\ currentFilter = sevCritical
  /\ reportArea.kind = "report"
  /\ reportArea.shownCount = 0
  /\ Len(HeldIssues) = 2
  /\ Len(download.entries) = 2
  /\ Len(download.checklist) = 2
  /\ DOMAIN download.distribution # {}

====
